---- MODULE Spec2Model ----
(***************************************************************************)
(* Product identity resolution engine (agentic/pydantic_ai/                *)
(* product_grouper.py): the key-value store's embedding and product-group  *)
(* items, and the ProductIdentityGrouper operations over them.  Every      *)
(* boto3 call (put_item, update_item, get_item, query) is one atomic step  *)
(* of the invocation that makes it; separate invocations interleave at     *)
(* these steps.  Reads are taken as consistent reads of the table.         *)
(***************************************************************************)
EXTENDS Integers, Sequences, FiniteSets, TLC

\* ------------------------------------------------------------------ bounds
NumImages == 3
MaxGroups == 3
NumProcs == 2

Images == 1..NumImages
\* Group ids allocated by uuid4 (fresh each time) are 1, 2, ... in allocation order.
GroupIds == 1..MaxGroups
\* A caller-supplied group id that no create_product_group ever allocated.
PhantomGroup == MaxGroups + 1
AllGroupIds == 1..(MaxGroups + 1)
Procs == 1..NumProcs

\* productGroupId / groupId = None
NoGroup == 0
\* no image (primaryImageId attribute missing)
NoImage == 0

\* --------------------------------------------------------------- sequences
Range(s) == {s[k] : k \in 1..Len(s)}

Count(x, s) == Cardinality({k \in 1..Len(s) : s[k] = x})

NoDuplicates(s) == \A j, k \in 1..Len(s) : s[j] = s[k] => j = k

IsPrefix(s, t) == Len(s) <= Len(t) /\ \A k \in 1..Len(s) : s[k] = t[k]

\* The sequences over S of length 0..n without a repeated element.
DistinctSeqs(S, n) ==
    UNION {{s \in [1..k -> S] : NoDuplicates(s)} : k \in 0..n}

\* ------------------------------------------------------------------ scores
\* A similarity score is the real number num / sqrt(den2), den2 > 0, kept exact.
Score(n, d2) == [num |-> n, den2 |-> d2]

ScoreOne == Score(1, 1)
ScoreZero == Score(0, 1)

\* s >= t
ScoreGE(s, t) ==
    IF s.num >= 0 /\ t.num >= 0 THEN s.num * s.num * t.den2 >= t.num * t.num * s.den2
    ELSE IF s.num >= 0 THEN TRUE
    ELSE IF t.num >= 0 THEN FALSE
    ELSE s.num * s.num * t.den2 <= t.num * t.num * s.den2

ScoreEq(s, t) == ScoreGE(s, t) /\ ScoreGE(t, s)

ScoreGT(s, t) == ~ScoreGE(t, s)

\* SIMILARITY_THRESHOLDS
ThresholdSameProduct == Score(92, 10000)
ThresholdLikelySame == Score(85, 10000)
ThresholdPossiblySame == Score(75, 10000)

\* Embedding vectors the embedding service returns (directions 0, 26.6, 36.9 and
\* 90 degrees: every pair of classifications occurs between them).
Vecs == {<<1, 0>>, <<2, 1>>, <<4, 3>>, <<0, 1>>}

\* _generate_batch_image_embeddings' vector, [0.1] * 1024, in the model's dimension.
DummyVec == <<1, 1>>

RECURSIVE Dot(_, _)
Dot(a, b) == IF Len(a) = 0 \/ Len(b) = 0 THEN 0
             ELSE a[1] * b[1] + Dot(Tail(a), Tail(b))

\* cosine_similarity for non-empty vectors of one length; 0.0 when a norm is zero.
cosine_similarity(a, b) ==
    LET na2 == Dot(a, a)
        nb2 == Dot(b, b)
    IN IF na2 * nb2 = 0 THEN ScoreZero ELSE Score(Dot(a, b), na2 * nb2)

\* cosine_similarity raises ValueError
CosineRaises(a, b) == Len(a) = 0 \/ Len(b) = 0 \/ Len(a) # Len(b)

\* Mutant: the dimension check before the emptiness check.
CosineErrorDimensionFirst(a, b) ==
    IF Len(a) # Len(b) THEN "DimensionMismatch"
    ELSE IF Len(a) = 0 \/ Len(b) = 0 THEN "EmptyVector"
    ELSE ""

\* Which ValueError cosine_similarity raises, by its message; "" when it returns.
CosineError(a, b) ==
    IF Len(a) = 0 \/ Len(b) = 0 THEN "EmptyVector"
    ELSE IF Len(a) # Len(b) THEN "DimensionMismatch"
    ELSE ""

\* Mutant: the bands with exclusive lower bounds.
classify_similarity_strict(s) ==
    IF ScoreGT(s, ThresholdSameProduct) THEN "SAME_PRODUCT"
    ELSE IF ScoreGT(s, ThresholdLikelySame) THEN "LIKELY_SAME"
    ELSE IF ScoreGT(s, ThresholdPossiblySame) THEN "POSSIBLY_SAME"
    ELSE "DIFFERENT"

classify_similarity(s) ==
    IF ScoreGE(s, ThresholdSameProduct) THEN "SAME_PRODUCT"
    ELSE IF ScoreGE(s, ThresholdLikelySame) THEN "LIKELY_SAME"
    ELSE IF ScoreGE(s, ThresholdPossiblySame) THEN "POSSIBLY_SAME"
    ELSE "DIFFERENT"

\* _calculate_multi_signal_similarity: totalScore = 0.9
MultiSignalScore == Score(9, 100)

\* ----------------------------------------------------------------- tenants
\* A string is the sequence of its characters.  AllowedChars: the characters used
\* here that are in the class [a-zA-Z0-9_-].  Chars: those the tenant ids under
\* study are made of.
AllowedChars == {"a", "b", "c", "Z", "1", "7", "_", "-"}
Chars == {"a", "Z", "7", "_", "-", "#", "/"}

\* Mutant: '#' added to the allowed class.
sanitize_tenant_keeps_hash(tenant) ==
    SelectSeq(tenant, LAMBDA c : c \in AllowedChars \cup {"#"})

\* re.sub(r'[^a-zA-Z0-9_-]', '', tenant)
sanitize_tenant(tenant) == SelectSeq(tenant, LAMBDA c : c \in AllowedChars)

\* sanitize_tenant raises ValueError('Invalid tenant ID: ...')
SanitizeRaises(tenant) == sanitize_tenant(tenant) = <<>>

\* Mutant: the partition key from the tenant as given.
EmbeddingPKUnsanitized(tenant) == <<"TENANT", "#">> \o tenant \o <<"#", "EMBEDDING">>

\* pk = f"TENANT#{safe_tenant}#EMBEDDING", the literal parts as single symbols
EmbeddingPK(tenant) ==
    <<"TENANT", "#">> \o sanitize_tenant(tenant) \o <<"#", "EMBEDDING">>

\* pk = f"TENANT#{safe_tenant}#PRODUCT_GROUP"
GroupPK(tenant) ==
    <<"TENANT", "#">> \o sanitize_tenant(tenant) \o <<"#", "PRODUCT_GROUP">>

PublicOps ==
    {"store_embedding", "get_embeddings", "find_similar_images", "create_product_group",
     "link_image_to_group", "add_image_to_group_record", "get_product_group_by_id",
     "get_product_groups", "process_image_for_grouping",
     "batch_process_with_multi_signal"}

\* The partition keys operation op, called with tenant, may read or write: its own
\* and those of the operations it calls, to which it passes safe_tenant.
RECURSIVE OpKeys(_, _)
OpKeys(op, tenant) ==
    IF SanitizeRaises(tenant) THEN {}
    ELSE LET safe == sanitize_tenant(tenant)
         IN CASE op \in {"store_embedding", "get_embeddings", "link_image_to_group"} ->
                     {EmbeddingPK(tenant)}
              [] op \in {"get_product_group_by_id", "get_product_groups"} ->
                     {GroupPK(tenant)}
              [] op = "find_similar_images" -> OpKeys("get_embeddings", safe)
              [] op = "create_product_group" ->
                     {GroupPK(tenant)} \cup OpKeys("link_image_to_group", safe)
              [] op = "add_image_to_group_record" ->
                     {GroupPK(tenant)} \cup OpKeys("get_product_group_by_id", safe)
              [] op = "process_image_for_grouping" ->
                     OpKeys("store_embedding", safe) \cup OpKeys("find_similar_images", safe)
                       \cup OpKeys("link_image_to_group", safe)
                       \cup OpKeys("add_image_to_group_record", safe)
                       \cup OpKeys("create_product_group", safe)
              [] op = "batch_process_with_multi_signal" ->
                     OpKeys("store_embedding", safe) \cup OpKeys("get_embeddings", safe)
                       \cup OpKeys("create_product_group", safe)
              [] OTHER -> {}

\* ------------------------------------------------------------------- store
\* An item of partition TENANT#<t>#EMBEDDING.  hasId: the attributes put_item
\* writes (imageId, embedding) are there; an item that update_item brought into
\* existence has only productGroupId and updatedAt.
EmbAbsent == [present |-> FALSE, hasId |-> FALSE, vec |-> <<>>, gid |-> NoGroup]

\* An item of partition TENANT#<t>#PRODUCT_GROUP.  full: the attributes of
\* ProductGroup that put_item writes are there.
GrpAbsent ==
    [present |-> FALSE, full |-> FALSE, imageIds |-> <<>>, primary |-> NoImage,
     confidence |-> ScoreZero]

\* store_embedding's put_item: the whole item is replaced.
PutEmbedding(e, i, v) ==
    [e EXCEPT ![i] = [present |-> TRUE, hasId |-> TRUE, vec |-> v, gid |-> NoGroup]]

\* Mutant: the link as a conditional write, attribute_not_exists(productGroupId):
\* a record that already carries a group id keeps it.
LinkUpdateIfUnlinked(e, i, g) ==
    [e EXCEPT ![i] = [@ EXCEPT !.present = TRUE,
                               !.gid = IF @ = NoGroup THEN g ELSE @]]

\* link_image_to_group's update_item: SET productGroupId, creating the item if absent.
LinkUpdate(e, i, g) ==
    [e EXCEPT ![i] = [@ EXCEPT !.present = TRUE, !.gid = g]]

\* Mutant: the last image, not the first, as primaryImageId.
NewGroupPrimaryLast(ids) ==
    [present |-> TRUE, full |-> TRUE, imageIds |-> ids, primary |-> ids[Len(ids)],
     confidence |-> ScoreOne]

\* create_product_group's ProductGroup and put_item.
NewGroup(ids) ==
    [present |-> TRUE, full |-> TRUE, imageIds |-> ids, primary |-> ids[1],
     confidence |-> ScoreOne]

PutGroup(G, g, ids) == [G EXCEPT ![g] = NewGroup(ids)]

\* Mutant: the update without its ConditionExpression.
AppendConditionAlways(rec, i) == TRUE

\* add_image_to_group_record's ConditionExpression, NOT contains(imageIds, :imageId):
\* true of an item without imageIds, and of no item at all.
AppendCondition(rec, i) == ~(i \in Range(rec.imageIds))

\* Mutant: the new id put at the front of imageIds.
AppendUpdateInFront(G, g, i) ==
    [G EXCEPT ![g] = [@ EXCEPT !.present = TRUE, !.imageIds = <<i>> \o @]]

\* add_image_to_group_record's UpdateExpression: list_append(if_not_exists(imageIds,
\* []), [imageId]), creating the item if absent.
AppendUpdate(G, g, i) ==
    [G EXCEPT ![g] = [@ EXCEPT !.present = TRUE, !.imageIds = Append(@, i)]]

\* ProductGroup(**unmarshall(item)): the model object read back from an item.
NoResult ==
    [groupId |-> NoGroup, imageIds |-> <<>>, primaryImageId |-> NoImage,
     confidence |-> ScoreZero]

ProductGroup(g, rec) ==
    [groupId |-> g, imageIds |-> rec.imageIds, primaryImageId |-> rec.primary,
     confidence |-> rec.confidence]

\* ProductGroup(**...) raises ValidationError: required fields are missing.
ValidationFails(rec) == ~rec.full

RECURSIVE Ascending(_)
Ascending(S) ==
    IF S = {} THEN <<>>
    ELSE LET m == CHOOSE x \in S : \A y \in S : x <= y
         IN <<m>> \o Ascending(S \ {m})

\* get_embeddings: the partition's items in sort-key order; an item without
\* imageId or embedding is skipped (KeyError).
get_embeddings(e) ==
    LET ids == Ascending({i \in Images : e[i].present /\ e[i].hasId})
    IN [k \in 1..Len(ids) |->
           [imageId |-> ids[k], embedding |-> e[ids[k]].vec,
            productGroupId |-> e[ids[k]].gid]]

\* page_size of get_embeddings (1000 in the source), scaled down so that a
\* partition of a few items spreads over several pages.
page_size == 2

Min(a, b) == IF a <= b THEN a ELSE b

\* The sort keys (image ids) of the partition's items after the exclusive start
\* key, in sort-key order: what a query resumed there has still to evaluate.
ItemsAfter(e, lek) == Ascending({i \in Images : e[i].present /\ i > lek})

\* Mutant: every page asked for with Limit = page_size.
PageLimitFixed(limit, got) == page_size

\* The Limit of the next query: min(page_size, limit - len(embeddings)).
PageLimit(limit, got) == Min(page_size, limit - Len(got))

\* The loop body's for: the page's items appended as ProductEmbedding, an item
\* without imageId or embedding skipped (KeyError).
RECURSIVE AppendReadable(_, _, _)
AppendReadable(got, e, page) ==
    IF page = <<>> THEN got
    ELSE AppendReadable(
           IF e[Head(page)].hasId
           THEN Append(got, [imageId |-> Head(page), embedding |-> e[Head(page)].vec,
                             productGroupId |-> e[Head(page)].gid])
           ELSE got,
           e, Tail(page))

\* sorted(matches, key=similarity, reverse=True): stable.
RECURSIVE InsertMatch(_, _)
InsertMatch(sorted, m) ==
    IF sorted = <<>> THEN <<m>>
    ELSE IF ScoreGE(sorted[1].similarity, m.similarity)
         THEN <<sorted[1]>> \o InsertMatch(Tail(sorted), m)
         ELSE <<m>> \o sorted

RECURSIVE SortMatches(_)
SortMatches(ms) ==
    IF ms = <<>> THEN <<>>
    ELSE InsertMatch(SortMatches(SubSeq(ms, 1, Len(ms) - 1)), ms[Len(ms)])

RECURSIVE CollectMatches(_, _, _)
CollectMatches(existing, v, exclude) ==
    IF existing = <<>> THEN <<>>
    ELSE LET x == existing[1]
             rest == CollectMatches(Tail(existing), v, exclude)
             sim == cosine_similarity(v, x.embedding)
         IN IF x.imageId = exclude \/ CosineRaises(v, x.embedding) THEN rest
            ELSE IF classify_similarity(sim) = "DIFFERENT" THEN rest
            ELSE <<[imageId |-> x.imageId, similarity |-> sim,
                    matchType |-> classify_similarity(sim),
                    groupId |-> x.productGroupId]>> \o rest

find_similar_images(e, v, exclude) ==
    SortMatches(CollectMatches(get_embeddings(e), v, exclude))

\* cluster_by_similarity's similarity of a seed and another item.
ClusterSimilarity(item, other, useMulti, meta) ==
    IF useMulti /\ meta # {} /\ item.imageId \in meta /\ other.imageId \in meta
    THEN MultiSignalScore
    ELSE cosine_similarity(item.embedding, other.embedding)

\* Mutant: each absorbed item becomes what the next ones are compared with.
RECURSIVE AbsorbChained(_, _, _, _, _, _, _)
AbsorbChained(embs, seed, j, assigned, threshold, useMulti, meta) ==
    IF j > Len(embs) THEN <<>>
    ELSE IF embs[j].imageId \in assigned
         THEN AbsorbChained(embs, seed, j + 1, assigned, threshold, useMulti, meta)
    ELSE IF ScoreGE(ClusterSimilarity(seed, embs[j], useMulti, meta), threshold)
         THEN <<embs[j].imageId>> \o
              AbsorbChained(embs, embs[j], j + 1, assigned \cup {embs[j].imageId},
                            threshold, useMulti, meta)
    ELSE AbsorbChained(embs, seed, j + 1, assigned, threshold, useMulti, meta)

\* The inner loop: the items from position j on that join the seed's cluster.
RECURSIVE Absorb(_, _, _, _, _, _, _)
Absorb(embs, seed, j, assigned, threshold, useMulti, meta) ==
    IF j > Len(embs) THEN <<>>
    ELSE IF embs[j].imageId \in assigned
         THEN Absorb(embs, seed, j + 1, assigned, threshold, useMulti, meta)
    ELSE IF ScoreGE(ClusterSimilarity(seed, embs[j], useMulti, meta), threshold)
         THEN <<embs[j].imageId>> \o
              Absorb(embs, seed, j + 1, assigned \cup {embs[j].imageId}, threshold,
                     useMulti, meta)
    ELSE Absorb(embs, seed, j + 1, assigned, threshold, useMulti, meta)

\* Mutant: the outer loop without assigned.add for the absorbed items.
RECURSIVE ClusterFromForgets(_, _, _, _, _, _)
ClusterFromForgets(embs, k, assigned, threshold, useMulti, meta) ==
    IF k > Len(embs) THEN <<>>
    ELSE IF embs[k].imageId \in assigned
         THEN ClusterFromForgets(embs, k + 1, assigned, threshold, useMulti, meta)
    ELSE LET cluster == <<embs[k].imageId>> \o
                        Absorb(embs, embs[k], 1, assigned \cup {embs[k].imageId},
                               threshold, useMulti, meta)
         IN <<cluster>> \o
            ClusterFromForgets(embs, k + 1, assigned \cup {embs[k].imageId}, threshold,
                               useMulti, meta)

\* The outer loop from position k on.
RECURSIVE ClusterFrom(_, _, _, _, _, _)
ClusterFrom(embs, k, assigned, threshold, useMulti, meta) ==
    IF k > Len(embs) THEN <<>>
    ELSE IF embs[k].imageId \in assigned
         THEN ClusterFrom(embs, k + 1, assigned, threshold, useMulti, meta)
    ELSE LET cluster == <<embs[k].imageId>> \o
                        Absorb(embs, embs[k], 1, assigned \cup {embs[k].imageId},
                               threshold, useMulti, meta)
         IN <<cluster>> \o
            ClusterFrom(embs, k + 1, assigned \cup Range(cluster), threshold,
                        useMulti, meta)

cluster_by_similarity(embs, threshold, useMulti, meta) ==
    ClusterFrom(embs, 1, {}, threshold, useMulti, meta)

\* Mutant: the embeddings iterated in an unspecified order, as a set would be.
ClusterOutcomesAnyOrder(embs, threshold, useMulti, meta) ==
    {cluster_by_similarity([k \in 1..Len(embs) |-> embs[f[k]]], threshold, useMulti, meta) :
        f \in {g \in [1..Len(embs) -> 1..Len(embs)] :
                  \A j, k \in 1..Len(embs) : g[j] = g[k] => j = k}}

\* What a run of cluster_by_similarity may return: the loops walk the list in
\* order, assigned is a set used for membership only, nothing is random.
ClusterOutcomes(embs, threshold, useMulti, meta) ==
    {cluster_by_similarity(embs, threshold, useMulti, meta)}

\* ------------------------------------------------------------------- state
VARIABLES
    emb,        \* the embedding items, by image id
    grp,        \* the product group items, by group id
    allocated,  \* how many group ids uuid4 has produced
    pc,         \* where each invocation stands: idle, a store call, or done
    loc,        \* each invocation's arguments, locals and result
    callsLeft   \* how many more invocations the run under study makes

vars == <<emb, grp, allocated, pc, loc, callsLeft>>

EmptyEmb == [i \in Images |-> EmbAbsent]
EmptyGrp == [g \in AllGroupIds |-> GrpAbsent]

\* emb0, grp0: the store as the invocation found it (for stating postconditions).
\* swallowed: an exception was caught and only printed.  storeFailed: a store call
\* raised.  condFailed: the conditional write was refused.  budget: group ids the
\* invocation may still allocate.  storeErrs: the batch's images whose
\* store_embedding raised.
IdleLoc ==
    [op |-> "", img |-> NoImage, vec |-> <<>>, gid |-> NoGroup, ids |-> <<>>, k |-> 0,
     matches |-> <<>>, assigned |-> NoResult, isNew |-> FALSE,
     err |-> "", swallowed |-> FALSE, storeFailed |-> FALSE, condFailed |-> FALSE,
     budget |-> 0, storeErrs |-> {},
     images |-> <<>>, incl |-> FALSE, newRaw |-> <<>>, ungrouped |-> <<>>,
     clusters |-> <<>>, ci |-> 0, created |-> <<>>, existingMatched |-> 0,
     emb0 |-> EmptyEmb, grp0 |-> EmptyGrp]

\* An empty table, nothing running; n invocations to come.
InitWith(n) ==
    /\ emb = EmptyEmb
    /\ grp = EmptyGrp
    /\ allocated = 0
    /\ pc = [p \in Procs |-> "idle"]
    /\ loc = [p \in Procs |-> IdleLoc]
    /\ callsLeft = n

RECURSIVE SumBudget(_)
SumBudget(S) ==
    IF S = {} THEN 0
    ELSE LET p == CHOOSE x \in S : TRUE IN loc[p].budget + SumBudget(S \ {p})

\* uuid4 never repeats; the model stops calls once MaxGroups ids could be in use.
CanAllocate(n) == allocated + SumBudget(Procs) + n <= MaxGroups

\* What a step leaves behind: the next position, the locals, the ids allocated.
Outcome(label, l, n) == [pc |-> label, l |-> l, alloc |-> n]

Done(l) == Outcome("done", [l EXCEPT !.budget = 0], 0)

Raised(l, e) == Done([l EXCEPT !.err = e])

\* except Exception as e: print(...)
Swallowed(l) == Done([l EXCEPT !.swallowed = TRUE])

Apply(p, o) ==
    /\ pc' = [pc EXCEPT ![p] = o.pc]
    /\ loc' = [loc EXCEPT ![p] = o.l]
    /\ allocated' = allocated + o.alloc

\* An invocation begins on an idle worker.
Enter(p, o) ==
    /\ pc[p] = "idle"
    /\ callsLeft > 0
    /\ callsLeft' = callsLeft - 1
    /\ Apply(p, o)
    /\ UNCHANGED <<emb, grp>>

\* create_product_group up to its put_item: group_id = uuid4.
EnterCreate(l, ids) ==
    Outcome("cpg_put",
            [l EXCEPT !.ids = ids, !.gid = allocated + 1, !.k = 1, !.budget = @ - 1], 1)

\* ------------------------------------------------------- batch, pure parts
NewIds(l) == Range(l.newRaw)

\* image_metadata_map's keys: _batch_extract_features has features for every image.
MetaIds(l) == {l.images[k].id : k \in 1..Len(l.images)}

\* Mutant: step 6 with len(group_image_ids) >= 1, a group for a singleton too.
RECURSIVE BatchAdvanceGroupsSingles(_)
BatchAdvanceGroupsSingles(l) ==
    IF l.ci > Len(l.clusters) THEN Done(l)
    ELSE LET c == l.clusters[l.ci]
         IN IF Range(c) \cap NewIds(l) = {}
            THEN BatchAdvanceGroupsSingles([l EXCEPT !.ci = @ + 1])
            ELSE EnterCreate(
                   [l EXCEPT !.existingMatched =
                       @ + Cardinality({k \in 1..Len(c) : c[k] \notin NewIds(l)})], c)

\* Step 6's loop from cluster l.ci on, up to the next store call.
RECURSIVE BatchAdvance(_)
BatchAdvance(l) ==
    IF l.ci > Len(l.clusters) THEN Done(l)
    ELSE LET c == l.clusters[l.ci]
         IN IF Range(c) \cap NewIds(l) = {}
            THEN BatchAdvance([l EXCEPT !.ci = @ + 1])
            ELSE IF Len(c) > 1
            THEN EnterCreate(
                   [l EXCEPT !.existingMatched =
                       @ + Cardinality({k \in 1..Len(c) : c[k] \notin NewIds(l)})], c)
            ELSE BatchAdvance([l EXCEPT !.ungrouped = Append(@, c[1]), !.ci = @ + 1])

\* Mutant: step 4 merging the existing embeddings in front of the new ones.
BatchClusterExistingFirst(l, existing) ==
    LET new == [k \in 1..Len(l.newRaw) |->
                   [imageId |-> l.newRaw[k], embedding |-> DummyVec]]
        kept == SelectSeq(existing, LAMBDA x : x.imageId \notin NewIds(l))
        all == [k \in 1..Len(kept) |->
                   [imageId |-> kept[k].imageId, embedding |-> kept[k].embedding]] \o new
    IN BatchAdvance([l EXCEPT
           !.clusters = cluster_by_similarity(all, ThresholdSameProduct, TRUE, MetaIds(l)),
           !.ci = 1])

\* Steps 4 (merge) and 5 (cluster), given the existing embeddings read.
BatchCluster(l, existing) ==
    LET new == [k \in 1..Len(l.newRaw) |->
                   [imageId |-> l.newRaw[k], embedding |-> DummyVec]]
        kept == SelectSeq(existing, LAMBDA x : x.imageId \notin NewIds(l))
        all == new \o [k \in 1..Len(kept) |->
                          [imageId |-> kept[k].imageId, embedding |-> kept[k].embedding]]
    IN BatchAdvance([l EXCEPT
           !.clusters = cluster_by_similarity(all, ThresholdSameProduct, TRUE, MetaIds(l)),
           !.ci = 1])

\* After the loop over batch_result.embeddings: the errors' ids, then step 4.
BatchAfterStores(l) ==
    LET failed == SelectSeq(l.images, LAMBDA x : x.big)
        l2 == [l EXCEPT !.ungrouped = @ \o [k \in 1..Len(failed) |-> failed[k].id]]
    IN IF l.incl THEN Outcome("query", l2, 0) ELSE BatchCluster(l2, <<>>)

\* The loop over batch_result.embeddings after item k.
BatchNextStore(l) ==
    IF l.k < Len(l.newRaw)
    THEN Outcome("store", [l EXCEPT !.k = @ + 1, !.img = l.newRaw[l.k + 1]], 0)
    ELSE BatchAfterStores(l)

\* comparisons: the pairs of the group with features for both images.
Comparisons(l, ids) ==
    Cardinality({pr \in (1..Len(ids)) \X (1..Len(ids)) :
                    pr[1] < pr[2] /\ ids[pr[1]] \in MetaIds(l) /\ ids[pr[2]] \in MetaIds(l)})

\* The summary's 'processed': len(new_embeddings_raw).
Processed(l) == Len(l.newRaw)

\* The ids cluster_by_similarity was given: all_embeddings, which it partitions.
ClusteredIds(l) == UNION {Range(l.clusters[c]) : c \in 1..Len(l.clusters)}

\* create_product_group has returned its group.
AfterCreate(l) ==
    LET group == ProductGroup(l.gid, NewGroup(l.ids))
    IN IF l.op = "batch"
       THEN IF Comparisons(l, l.ids) > 0
            \* ProductGroup(**product_group.model_dump(), confidence=...): confidence twice
            THEN Raised(l, "TypeError")
            ELSE BatchAdvance([l EXCEPT !.created = Append(@, group), !.ci = @ + 1])
       ELSE Done([l EXCEPT !.assigned = group, !.isNew = (l.op = "process")])

\* Mutant: the decision without its first branch, a new group for every
\* SAME_PRODUCT or LIKELY_SAME best match.
DecideAlwaysCreates(l, matches) ==
    LET l2 == [l EXCEPT !.matches = matches]
    IN IF matches # <<>> /\ matches[1].matchType \in {"SAME_PRODUCT", "LIKELY_SAME"}
       THEN EnterCreate(l2, <<l.img, matches[1].imageId>>)
       ELSE Done(l2)

\* Mutant: the second branch taken for any best match, POSSIBLY_SAME too.
DecideGroupsAnyMatch(l, matches) ==
    LET l2 == [l EXCEPT !.matches = matches]
    IN IF matches # <<>> /\ matches[1].matchType = "SAME_PRODUCT"
          /\ matches[1].groupId # NoGroup
       THEN Outcome("link", [l2 EXCEPT !.gid = matches[1].groupId, !.budget = 0], 0)
       ELSE IF matches # <<>>
       THEN EnterCreate(l2, <<l.img, matches[1].imageId>>)
       ELSE Done(l2)

\* process_image_for_grouping's decision on the matches found.
Decide(l, matches) ==
    LET l2 == [l EXCEPT !.matches = matches]
    IN IF matches # <<>> /\ matches[1].matchType = "SAME_PRODUCT"
          /\ matches[1].groupId # NoGroup
       THEN Outcome("link", [l2 EXCEPT !.gid = matches[1].groupId, !.budget = 0], 0)
       ELSE IF matches # <<>> /\ matches[1].matchType \in {"SAME_PRODUCT", "LIKELY_SAME"}
       THEN EnterCreate(l2, <<l.img, matches[1].imageId>>)
       ELSE Done(l2)

\* ------------------------------------------------------------------- calls
Entered(op) == [IdleLoc EXCEPT !.op = op, !.emb0 = emb, !.grp0 = grp]

\* Group ids a caller can name: the allocated ones and one never allocated.
KnownGroupIds == (1..allocated) \cup {PhantomGroup}

store_embedding(p, i, v) ==
    Enter(p, Outcome("store", [Entered("store_embedding") EXCEPT !.img = i, !.vec = v], 0))

link_image_to_group(p, i, g) ==
    Enter(p, Outcome("link", [Entered("link") EXCEPT !.img = i, !.gid = g], 0))

add_image_to_group_record(p, i, g) ==
    Enter(p, Outcome("add", [Entered("add") EXCEPT !.img = i, !.gid = g], 0))

\* Mutant: an empty image_ids list accepted, the call returning normally.
create_product_group_accepts_empty(p, ids) ==
    /\ CanAllocate(1)
    /\ Enter(p, IF ids = <<>>
                THEN Done(Entered("create"))
                ELSE EnterCreate([Entered("create") EXCEPT !.budget = 1], ids))

create_product_group(p, ids) ==
    /\ CanAllocate(1)
    /\ Enter(p, IF ids = <<>>
                THEN Raised(Entered("create"), "ValueError")
                ELSE EnterCreate([Entered("create") EXCEPT !.budget = 1], ids))

\* v: the embedding generate_image_embedding obtains for the image.
process_image_for_grouping(p, i, v) ==
    /\ CanAllocate(1)
    /\ Enter(p, Outcome("store",
                        [Entered("process") EXCEPT !.img = i, !.vec = v, !.budget = 1], 0))

\* Mutant: an embedding for every image of the batch, the rejected ones too.
batch_process_embeds_rejected(p, images, incl) ==
    LET newRaw == [k \in 1..Len(images) |-> images[k].id]
        l == [Entered("batch") EXCEPT !.images = images, !.incl = incl,
                                     !.newRaw = newRaw, !.vec = DummyVec,
                                     !.budget = Len(newRaw)]
    IN /\ CanAllocate(Len(newRaw))
       /\ Enter(p, BatchNextStore(l))

\* images: the batch, each with its id and whether its buffer exceeds MAX_IMAGE_SIZE.
batch_process_with_multi_signal(p, images, incl) ==
    LET ok == SelectSeq(images, LAMBDA x : ~x.big)
        newRaw == [k \in 1..Len(ok) |-> ok[k].id]
        l == [Entered("batch") EXCEPT !.images = images, !.incl = incl,
                                     !.newRaw = newRaw, !.vec = DummyVec,
                                     !.budget = Len(newRaw)]
    IN /\ CanAllocate(Len(newRaw))
       /\ Enter(p, BatchNextStore(l))

\* ------------------------------------------------------------- store calls
\* store_embedding: put_item
StoreEmbeddingPut(p) ==
    LET l == loc[p]
    IN /\ pc[p] = "store"
       /\ emb' = PutEmbedding(emb, l.img, l.vec)
       /\ Apply(p, CASE l.op = "process" -> Outcome("query", l, 0)
                     [] l.op = "batch" -> BatchNextStore(l)
                     [] OTHER -> Done(l))
       /\ UNCHANGED <<grp, callsLeft>>

\* get_embeddings: query (one page holds the partition)
GetEmbeddingsQuery(p) ==
    LET l == loc[p]
    IN /\ pc[p] = "query"
       /\ Apply(p, IF l.op = "batch"
                   THEN BatchCluster(l, get_embeddings(emb))
                   ELSE Decide(l, find_similar_images(emb, l.vec, l.img)))
       /\ UNCHANGED <<emb, grp, callsLeft>>

\* link_image_to_group: update_item
LinkUpdateItem(p) ==
    LET l == loc[p]
    IN /\ pc[p] = "link"
       /\ emb' = LinkUpdate(emb, l.img, l.gid)
       /\ Apply(p, IF l.op = "process" THEN Outcome("add", l, 0) ELSE Done(l))
       /\ UNCHANGED <<grp, callsLeft>>

\* What add_image_to_group_record makes of the item it got back.
AddResult(l, rec) ==
    IF ~rec.present THEN Done(l)
    ELSE IF ValidationFails(rec)
    THEN IF l.op = "process" THEN Swallowed(l) ELSE Raised(l, "ValidationError")
    ELSE Done([l EXCEPT !.assigned = ProductGroup(l.gid, rec)])

\* add_image_to_group_record: the conditional update_item, ReturnValues ALL_NEW
AddUpdateItem(p) ==
    LET l == loc[p]
    IN /\ pc[p] = "add"
       /\ IF AppendCondition(grp[l.gid], l.img)
          THEN /\ grp' = AppendUpdate(grp, l.gid, l.img)
               /\ Apply(p, AddResult(l, grp'[l.gid]))
          ELSE /\ grp' = grp
               /\ Apply(p, Outcome("get", [l EXCEPT !.condFailed = TRUE], 0))
       /\ UNCHANGED <<emb, callsLeft>>

\* get_product_group_by_id after ConditionalCheckFailedException: get_item
AddGetItem(p) ==
    LET l == loc[p]
    IN /\ pc[p] = "get"
       /\ Apply(p, AddResult(l, grp[l.gid]))
       /\ UNCHANGED <<emb, grp, callsLeft>>

\* create_product_group: put_item
CreatePutItem(p) ==
    LET l == loc[p]
    IN /\ pc[p] = "cpg_put"
       /\ grp' = PutGroup(grp, l.gid, l.ids)
       /\ Apply(p, Outcome("cpg_link", l, 0))
       /\ UNCHANGED <<emb, callsLeft>>

\* create_product_group: link_image_to_group for image_ids[k]
CreateLinkItem(p) ==
    LET l == loc[p]
    IN /\ pc[p] = "cpg_link"
       /\ emb' = LinkUpdate(emb, l.ids[l.k], l.gid)
       /\ Apply(p, IF l.k < Len(l.ids) THEN Outcome("cpg_link", [l EXCEPT !.k = @ + 1], 0)
                   ELSE AfterCreate(l))
       /\ UNCHANGED <<grp, callsLeft>>

\* A store call raises (unavailable, timeout) and changes nothing.
StoreCallFails(p) ==
    LET l == [loc[p] EXCEPT !.storeFailed = TRUE]
    IN /\ pc[p] \in {"store", "query", "link", "add", "get", "cpg_put", "cpg_link"}
       /\ Apply(p, CASE pc[p] = "store" /\ l.op = "batch" ->
                          BatchNextStore([l EXCEPT !.swallowed = TRUE,
                                                   !.storeErrs = @ \cup {l.img}])
                     [] pc[p] \in {"link", "add", "get"} /\ l.op = "process" -> Swallowed(l)
                     [] OTHER -> Raised(l, "StorageError"))
       /\ UNCHANGED <<emb, grp, callsLeft>>

\* The invocation returns (or raises) to its caller.
Return(p) ==
    /\ pc[p] = "done"
    /\ pc' = [pc EXCEPT ![p] = "idle"]
    /\ loc' = [loc EXCEPT ![p] = IdleLoc]
    /\ UNCHANGED <<emb, grp, allocated, callsLeft>>

\* The process running p's invocation dies between two store calls: what it wrote
\* stays, nothing is returned to anyone.
Crash(p) ==
    /\ pc[p] \notin {"idle", "done"}
    /\ pc' = [pc EXCEPT ![p] = "idle"]
    /\ loc' = [loc EXCEPT ![p] = IdleLoc]
    /\ UNCHANGED <<emb, grp, allocated, callsLeft>>

\* ---------------------------------------------------------- specifications
\* create_product_group's image_ids as a caller may pass them.
MaxCreateLen == 2
CreateInputs == UNION {[1..n -> Images] : n \in 0..MaxCreateLen}

BatchInputs ==
    UNION {{[k \in 1..Len(s) |-> [id |-> s[k], big |-> f[k]]] : f \in [1..Len(s) -> BOOLEAN]} :
           s \in DistinctSeqs(Images, NumImages)}

StoreCall(p) ==
    \/ StoreEmbeddingPut(p)
    \/ GetEmbeddingsQuery(p)
    \/ LinkUpdateItem(p)
    \/ AddUpdateItem(p)
    \/ AddGetItem(p)
    \/ CreatePutItem(p)
    \/ CreateLinkItem(p)

\* One invocation at a time: everything else is idle when a call is made.
AllIdle == \A q \in Procs : pc[q] = "idle"

\* Any public operation, called directly with any arguments, one call after another.
MaxCalls == 3

Init == InitWith(MaxCalls)

Next ==
    \/ \E i \in Images, v \in Vecs : AllIdle /\ store_embedding(1, i, v)
    \/ \E i \in Images, g \in KnownGroupIds : AllIdle /\ link_image_to_group(1, i, g)
    \/ \E i \in Images, g \in KnownGroupIds : AllIdle /\ add_image_to_group_record(1, i, g)
    \/ \E ids \in CreateInputs : AllIdle /\ create_product_group(1, ids)
    \/ \E i \in Images, v \in Vecs : AllIdle /\ process_image_for_grouping(1, i, v)
    \/ StoreCall(1)
    \/ Return(1)

Spec == Init /\ [][Next]_vars

\* The pipelines as deployed: process_image_for_grouping for newly uploaded images
\* and batch_process_with_multi_signal, one invocation at a time; store calls may fail.
MaxSeqCalls == 3

InitSeq == InitWith(MaxSeqCalls)

NextSeq ==
    \/ \E i \in Images, v \in Vecs :
           AllIdle /\ ~emb[i].present /\ process_image_for_grouping(1, i, v)
    \/ \E images \in BatchInputs, incl \in BOOLEAN :
           AllIdle /\ batch_process_with_multi_signal(1, images, incl)
    \/ StoreEmbeddingPut(1)
    \/ GetEmbeddingsQuery(1)
    \/ LinkUpdateItem(1)
    \/ AddUpdateItem(1)
    \/ CreatePutItem(1)
    \/ CreateLinkItem(1)
    \/ StoreCallFails(1)
    \/ Return(1)

SpecSeq == InitSeq /\ [][NextSeq]_vars

\* Concurrent create_product_group and add_image_to_group_record invocations.
MaxAddCalls == 3

InitAdd == InitWith(MaxAddCalls)

NextAdd ==
    \E p \in Procs :
        \/ \E ids \in CreateInputs : create_product_group(p, ids)
        \/ \E i \in Images, g \in KnownGroupIds : add_image_to_group_record(p, i, g)
        \/ CreatePutItem(p)
        \/ CreateLinkItem(p)
        \/ AddUpdateItem(p)
        \/ AddGetItem(p)
        \/ Return(p)

SpecAdd == InitAdd /\ [][NextAdd]_vars

\* Concurrent process_image_for_grouping invocations, each for a distinct new image.
MaxOrchCalls == 3

InitOrch == InitWith(MaxOrchCalls)

IsNewImage(i) == ~emb[i].present /\ \A q \in Procs : loc[q].img # i

NextOrch ==
    \E p \in Procs :
        \/ \E i \in Images, v \in Vecs : IsNewImage(i) /\ process_image_for_grouping(p, i, v)
        \/ StoreEmbeddingPut(p)
        \/ GetEmbeddingsQuery(p)
        \/ LinkUpdateItem(p)
        \/ AddUpdateItem(p)
        \/ AddGetItem(p)
        \/ CreatePutItem(p)
        \/ CreateLinkItem(p)
        \/ Return(p)

SpecOrch == InitOrch /\ [][NextOrch]_vars

\* The helper functions and the key construction, each applied to inputs drawn at
\* the start; every worker is given the same call.
\* Group creation that may crash or fail between its writes, and the repair by
\* link_image_to_group calls, one invocation at a time.
MaxRetryCalls == 3

InitRetry == InitWith(MaxRetryCalls)

NextRetry ==
    \/ \E i \in Images, v \in Vecs : AllIdle /\ store_embedding(1, i, v)
    \/ \E ids \in CreateInputs : AllIdle /\ create_product_group(1, ids)
    \/ \E i \in Images, g \in KnownGroupIds : AllIdle /\ link_image_to_group(1, i, g)
    \/ StoreEmbeddingPut(1)
    \/ CreatePutItem(1)
    \/ CreateLinkItem(1)
    \/ LinkUpdateItem(1)
    \/ StoreCallFails(1)
    \/ Crash(1)
    \/ Return(1)

SpecRetry == InitRetry /\ [][NextRetry]_vars

\* get_embeddings page by page against a partition that holds readable and
\* unreadable items; the store decides how many items a page carries.
MaxLimit == 4
MaxPageCalls == 2

\* What an embedding item can be: absent, written by store_embedding (linked or
\* not), or upserted by a link with no imageId and no embedding.
PageItems ==
    {EmbAbsent,
     [present |-> TRUE, hasId |-> TRUE, vec |-> DummyVec, gid |-> NoGroup],
     [present |-> TRUE, hasId |-> TRUE, vec |-> DummyVec, gid |-> 1],
     [present |-> TRUE, hasId |-> FALSE, vec |-> <<>>, gid |-> 1]}

PageIdle == [op |-> "", limit |-> 0, embeddings |-> <<>>, lek |-> NoImage, queries |-> 0]

InitPage ==
    /\ emb \in [Images -> PageItems]
    /\ grp = EmptyGrp
    /\ allocated = 0
    /\ callsLeft = MaxPageCalls
    /\ pc = [p \in Procs |-> "idle"]
    /\ loc = [p \in Procs |-> PageIdle]

\* get_embeddings(tenant, limit) is called: embeddings = [], last_evaluated_key = None.
GetEmbeddingsCall(p, limit) ==
    /\ pc[p] = "idle"
    /\ callsLeft > 0
    /\ callsLeft' = callsLeft - 1
    /\ pc' = [pc EXCEPT ![p] = "page"]
    /\ loc' = [loc EXCEPT ![p] = [PageIdle EXCEPT !.op = "get_embeddings", !.limit = limit]]
    /\ UNCHANGED <<emb, grp, allocated>>

\* One pass of the while loop: a query with Limit and ExclusiveStartKey, the items
\* appended, the break test.  The store evaluates n items, at most Limit, at least
\* one when one is left; it reports a LastEvaluatedKey when items are left, none
\* when it ran out below Limit, and either when the page ended on the last item.
GetEmbeddingsPage(p) ==
    LET l == loc[p]
        rest == ItemsAfter(emb, l.lek)
        most == Min(PageLimit(l.limit, l.embeddings), Len(rest))
    IN /\ pc[p] = "page"
       /\ \E n \in Min(1, most)..most : \E more \in BOOLEAN :
             /\ n < Len(rest) => more
             /\ (n = Len(rest) /\ n < PageLimit(l.limit, l.embeddings)) => ~more
             /\ LET got == AppendReadable(l.embeddings, emb, SubSeq(rest, 1, n))
                IN /\ loc' = [loc EXCEPT ![p] =
                                 [l EXCEPT !.embeddings = got,
                                           !.lek = IF more THEN rest[n] ELSE NoImage,
                                           !.queries = @ + 1]]
                   /\ pc' = [pc EXCEPT ![p] =
                                IF ~more \/ Len(got) >= l.limit THEN "done" ELSE "page"]
       /\ UNCHANGED <<emb, grp, allocated, callsLeft>>

\* The caller takes the list.
GetEmbeddingsReturn(p) ==
    /\ pc[p] = "done"
    /\ pc' = [pc EXCEPT ![p] = "idle"]
    /\ loc' = [loc EXCEPT ![p] = PageIdle]
    /\ UNCHANGED <<emb, grp, allocated, callsLeft>>

NextPage ==
    \E p \in Procs :
        \/ \E limit \in 1..MaxLimit : GetEmbeddingsCall(p, limit)
        \/ GetEmbeddingsPage(p)
        \/ GetEmbeddingsReturn(p)

\* The while loop of a running call goes on: each query returns.
SpecPage ==
    InitPage /\ [][NextPage]_vars /\ \A p \in Procs : WF_vars(GetEmbeddingsPage(p))

\* Listing the groups.  Group items carry updatedAt, a clock reading that grows with
\* every call; a new group's id is a uuid4, any id not in use, so its place in
\* sort-key order has nothing to do with when it was created.
MaxListCalls == 4

\* time.strftime(..., time.gmtime()) at the call being made.
Now == MaxListCalls - callsLeft + 1

Stamped(rec, t) == rec @@ [updatedAt |-> t]

RECURSIVE Descending(_)
Descending(S) ==
    IF S = {} THEN <<>>
    ELSE LET m == CHOOSE x \in S : \A y \in S : x >= y
         IN <<m>> \o Descending(S \ {m})

\* get_product_groups: query with Limit=limit, ScanIndexForward=False: the
\* partition's items by descending sort key GROUP#<groupId>, the first limit.
get_product_groups(G, limit) ==
    LET keys == Descending({g \in AllGroupIds : G[g].present})
        n == Min(limit, Len(keys))
    IN [k \in 1..n |->
           [groupId |-> keys[k], imageIds |-> G[keys[k]].imageIds,
            primaryImageId |-> G[keys[k]].primary, updatedAt |-> G[keys[k]].updatedAt]]

\* create_product_group's loop of link_image_to_group calls.
RECURSIVE LinkAll(_, _, _)
LinkAll(e, ids, g) ==
    IF ids = <<>> THEN e ELSE LinkAll(LinkUpdate(e, Head(ids), g), Tail(ids), g)

ListIdle == [op |-> "", limit |-> 0, result |-> <<>>]

InitList ==
    /\ emb = EmptyEmb
    /\ grp = [g \in AllGroupIds |-> Stamped(GrpAbsent, 0)]
    /\ allocated = 0
    /\ callsLeft = MaxListCalls
    /\ pc = [p \in Procs |-> "idle"]
    /\ loc = [p \in Procs |-> ListIdle]

\* create_product_group(image_ids), start to end: the record put under a fresh id
\* with updatedAt = now, every image linked.
ListCreate(ids) ==
    /\ callsLeft > 0
    /\ ids # <<>>
    /\ \E g \in GroupIds :
          /\ ~grp[g].present
          /\ grp' = [grp EXCEPT ![g] = Stamped(NewGroup(ids), Now)]
          /\ emb' = LinkAll(emb, ids, g)
    /\ allocated' = allocated + 1
    /\ callsLeft' = callsLeft - 1
    /\ UNCHANGED <<pc, loc>>

\* add_image_to_group_record(image_id, group_id) on an existing group, start to
\* end: the id appended and updatedAt set to now unless the id is already there.
ListAdd(i, g) ==
    /\ callsLeft > 0
    /\ grp[g].full
    /\ grp' = IF AppendCondition(grp[g], i)
              THEN [AppendUpdate(grp, g, i) EXCEPT ![g].updatedAt = Now]
              ELSE grp
    /\ callsLeft' = callsLeft - 1
    /\ UNCHANGED <<emb, allocated, pc, loc>>

\* get_product_groups(tenant, limit) by p.
ListQuery(p, limit) ==
    /\ pc[p] = "idle"
    /\ callsLeft > 0
    /\ callsLeft' = callsLeft - 1
    /\ pc' = [pc EXCEPT ![p] = "done"]
    /\ loc' = [loc EXCEPT ![p] = [op |-> "get_product_groups", limit |-> limit,
                                  result |-> get_product_groups(grp, limit)]]
    /\ UNCHANGED <<emb, grp, allocated>>

ListReturn(p) ==
    /\ pc[p] = "done"
    /\ pc' = [pc EXCEPT ![p] = "idle"]
    /\ loc' = [loc EXCEPT ![p] = ListIdle]
    /\ UNCHANGED <<emb, grp, allocated, callsLeft>>

NextList ==
    \/ \E ids \in CreateInputs : ListCreate(ids)
    \/ \E i \in Images, g \in GroupIds : ListAdd(i, g)
    \/ \E p \in Procs, limit \in 1..MaxGroups : ListQuery(p, limit)
    \/ \E p \in Procs : ListReturn(p)

SpecList == InitList /\ [][NextList]_vars

\* ImageProcessor.process_existing_files over an input directory.  A name is a
\* sequence of pieces: "." is a dot, every other piece a run of letters that is
\* or is not the body of an image extension.
MaxNameLen == 3
MaxEntries == 2

NameTokens == {"a", ".", "jpg", "JPG", "heic"}

Names == UNION {[1..n -> NameTokens] : n \in 1..MaxNameLen}

\* The input directory's entries, regular files and subdirectories, names distinct,
\* in the order the glob yields them.
Listings ==
    UNION {{d \in [1..n -> [name : Names, isDir : BOOLEAN]] :
               \A j, k \in 1..n : j # k => d[j].name # d[k].name} : n \in 0..MaxEntries}

\* SUPPORTED_FORMATS, '.heic' in it when pillow_heif could be imported.
SUPPORTED_FORMATS(heic) ==
    {<<".", "jpg">>, <<".", "jpeg">>, <<".", "png">>}
        \cup (IF heic THEN {<<".", "heic">>} ELSE {})

\* glob("*.*"): the names with a dot in them, hidden ones and directories too.
GlobMatches(name) == \E k \in 1..Len(name) : name[k] = "."

\* name.rfind('.'), counted from 1, 0 when there is no dot.
LastDot(name) ==
    IF GlobMatches(name)
    THEN CHOOSE k \in 1..Len(name) :
             name[k] = "." /\ \A j \in (k + 1)..Len(name) : name[j] # "."
    ELSE 0

\* pathlib's suffix: from the last dot on, unless that dot begins or ends the name.
Suffix(name) ==
    LET i == LastDot(name)
    IN IF 1 < i /\ i < Len(name) THEN SubSeq(name, i, Len(name)) ELSE <<>>

\* Mutant: the suffix compared as written, without lower().
LowerKeepsCase(s) == s

\* str.lower()
Lower(s) == [k \in 1..Len(s) |-> IF s[k] = "JPG" THEN "jpg" ELSE s[k]]

DirIdle ==
    [fn |-> "", dir |-> <<>>, heic |-> FALSE, glob |-> <<>>, k |-> 0,
     calls |-> <<>>, count |-> 0]

InitDir ==
    /\ emb = EmptyEmb
    /\ grp = EmptyGrp
    /\ allocated = 0
    /\ callsLeft = 1
    /\ pc = [p \in Procs |-> "idle"]
    /\ \E d \in Listings, h \in BOOLEAN :
          loc = [p \in Procs |-> [DirIdle EXCEPT !.dir = d, !.heic = h]]

\* process_existing_files is called: count = 0, the glob is taken.
ProcessExistingCall(p) ==
    /\ pc[p] = "idle"
    /\ callsLeft > 0
    /\ callsLeft' = callsLeft - 1
    /\ pc' = [pc EXCEPT ![p] = "loop"]
    /\ loc' = [loc EXCEPT ![p] =
                  [loc[p] EXCEPT
                      !.fn = "process_existing_files",
                      !.glob = SelectSeq(loc[p].dir, LAMBDA e : GlobMatches(e.name)),
                      !.k = 1]]
    /\ UNCHANGED <<emb, grp, allocated>>

\* One pass of the for loop; past the last path, the log line and the return.
\* process_image returns False on whatever goes wrong, as on a directory.
ProcessExistingStep(p) ==
    LET l == loc[p]
    IN /\ pc[p] = "loop"
       /\ IF l.k > Len(l.glob)
          THEN /\ pc' = [pc EXCEPT ![p] = "done"]
               /\ loc' = loc
          ELSE /\ pc' = pc
               /\ IF Lower(Suffix(l.glob[l.k].name)) \in SUPPORTED_FORMATS(l.heic)
                  THEN \E ok \in (IF l.glob[l.k].isDir THEN {FALSE} ELSE BOOLEAN) :
                          loc' = [loc EXCEPT ![p] =
                                     [l EXCEPT !.calls = Append(@, l.glob[l.k].name),
                                               !.count = IF ok THEN @ + 1 ELSE @,
                                               !.k = @ + 1]]
                  ELSE loc' = [loc EXCEPT ![p] = [l EXCEPT !.k = @ + 1]]
       /\ UNCHANGED <<emb, grp, allocated, callsLeft>>

\* The processor runs it once, at start, on one thread.
NextDir ==
    \/ ProcessExistingCall(1)
    \/ ProcessExistingStep(1)

SpecDir == InitDir /\ [][NextDir]_vars

MaxTenantLen == 3
MaxDim == 2

TenantInputs ==
    UNION {[1..n -> Chars] : n \in 0..MaxTenantLen} \cup {<<"a", "b", "/", "c", "#", "1">>}

VecInputs == UNION {[1..n -> {-1, 0, 1, 2}] : n \in 0..MaxDim}

ScoreInputs ==
    {Score(n, 10000) : n \in {-100, 0, 74, 75, 76, 84, 85, 86, 91, 92, 93, 100}}
        \cup {cosine_similarity(a, b) : a, b \in Vecs}

ThresholdInputs ==
    {ThresholdSameProduct, ThresholdLikelySame, ThresholdPossiblySame, ScoreZero,
     Score(101, 10000)}

EmbeddingInputs ==
    UNION {{[k \in 1..Len(s) |-> [imageId |-> s[k], embedding |-> v[k]]] :
               v \in [1..Len(s) -> Vecs]} : s \in DistinctSeqs(Images, NumImages)}

FnCall ==
    [fn |-> "", embs |-> <<>>, threshold |-> ScoreZero, useMulti |-> FALSE, meta |-> {},
     score |-> ScoreZero, a |-> <<>>, b |-> <<>>, tenant |-> <<>>,
     result |-> <<>>, err |-> "", keys |-> {}]

FnCalls ==
    {[FnCall EXCEPT !.fn = "cluster_by_similarity", !.embs = e, !.threshold = t,
                    !.useMulti = m[1], !.meta = m[2]] :
        e \in EmbeddingInputs, t \in ThresholdInputs,
        m \in {<<FALSE, {}>>} \cup ({TRUE} \X SUBSET Images)}
    \cup {[FnCall EXCEPT !.fn = "classify_similarity", !.score = s] : s \in ScoreInputs}
    \cup {[FnCall EXCEPT !.fn = "cosine_similarity", !.a = a, !.b = b] :
             a, b \in VecInputs}
    \cup {[FnCall EXCEPT !.fn = "sanitize_tenant", !.tenant = t] : t \in TenantInputs}
    \cup {[FnCall EXCEPT !.fn = op, !.tenant = t] : op \in PublicOps, t \in TenantInputs}

InitFn ==
    /\ emb = EmptyEmb
    /\ grp = EmptyGrp
    /\ allocated = 0
    /\ callsLeft = 0
    /\ pc = [p \in Procs |-> "call"]
    /\ \E c \in FnCalls : loc = [p \in Procs |-> c]

\* The call of worker p ends as l.
FnDone(p, l) ==
    /\ pc' = [pc EXCEPT ![p] = "done"]
    /\ loc' = [loc EXCEPT ![p] = l]
    /\ UNCHANGED <<emb, grp, allocated, callsLeft>>

ClusterRun(p) ==
    /\ pc[p] = "call" /\ loc[p].fn = "cluster_by_similarity"
    /\ \E r \in ClusterOutcomes(loc[p].embs, loc[p].threshold, loc[p].useMulti, loc[p].meta) :
           FnDone(p, [loc[p] EXCEPT !.result = r])

ClassifyRun(p) ==
    /\ pc[p] = "call" /\ loc[p].fn = "classify_similarity"
    /\ FnDone(p, [loc[p] EXCEPT !.result = classify_similarity(loc[p].score)])

CosineRun(p) ==
    /\ pc[p] = "call" /\ loc[p].fn = "cosine_similarity"
    /\ FnDone(p, IF CosineRaises(loc[p].a, loc[p].b)
                  THEN [loc[p] EXCEPT !.err = CosineError(loc[p].a, loc[p].b)]
                  ELSE [loc[p] EXCEPT !.result = cosine_similarity(loc[p].a, loc[p].b)])

SanitizeRun(p) ==
    /\ pc[p] = "call" /\ loc[p].fn = "sanitize_tenant"
    /\ FnDone(p, IF SanitizeRaises(loc[p].tenant)
                  THEN [loc[p] EXCEPT !.err = "InvalidTenant"]
                  ELSE [loc[p] EXCEPT !.result = sanitize_tenant(loc[p].tenant)])

\* A public operation called with a tenant: the partition keys it uses.
TenantOpRun(p) ==
    /\ pc[p] = "call" /\ loc[p].fn \in PublicOps
    /\ FnDone(p, IF SanitizeRaises(loc[p].tenant)
                  THEN [loc[p] EXCEPT !.err = "InvalidTenant"]
                  ELSE [loc[p] EXCEPT !.keys = OpKeys(loc[p].fn, loc[p].tenant)])

NextFn ==
    \E p \in Procs :
        \/ ClusterRun(p)
        \/ ClassifyRun(p)
        \/ CosineRun(p)
        \/ SanitizeRun(p)
        \/ TenantOpRun(p)

SpecFn == InitFn /\ [][NextFn]_vars

\* ------------------------------------------------------------------ claims
\* The group records written since invocation p began.
GroupsCreatedSince(p) ==
    {g \in AllGroupIds : grp[g].present /\ ~loc[p].grp0[g].present}

GroupsHolding(i) == {g \in AllGroupIds : grp[g].present /\ i \in Range(grp[g].imageIds)}

\* add_image_to_group_record(i, g) by p has returned or raised; when it was called
\* the group record existed, written by create_product_group, with i at most once.
AddFinished(p, i, g) ==
    /\ pc[p] = "done"
    /\ loc[p].op = "add"
    /\ loc[p].img = i
    /\ loc[p].gid = g
    /\ loc[p].grp0[g].full
    /\ Count(i, loc[p].grp0[g].imageIds) <= 1

\* C1: two concurrent add_image_to_group_record calls for one image id and one
\* existing group leave the id in imageIds exactly once; neither call raises, and
\* both (the one refused by the condition too) return the group's state as the
\* store held it when they read it: the id once, nothing later appends missing.
C1_ConcurrentAddOnce ==
    \A p, q \in Procs : \A i \in Images : \A g \in AllGroupIds :
        (p # q /\ AddFinished(p, i, g) /\ AddFinished(q, i, g)) =>
            /\ Count(i, grp[g].imageIds) = 1
            /\ loc[p].err = "" /\ loc[q].err = ""
            /\ \A r \in {p, q} :
                  /\ loc[r].assigned.groupId = g
                  /\ loc[r].assigned.primaryImageId = grp[g].primary
                  /\ Count(i, loc[r].assigned.imageIds) = 1
                  /\ IsPrefix(loc[r].assigned.imageIds, grp[g].imageIds)

\* Both calls began before either wrote; one appended, the other was refused.
C1_Witness ==
    \E p, q \in Procs : \E i \in Images : \E g \in AllGroupIds :
        /\ p # q /\ AddFinished(p, i, g) /\ AddFinished(q, i, g)
        /\ i \notin Range(loc[p].grp0[g].imageIds)
        /\ i \notin Range(loc[q].grp0[g].imageIds)
        /\ ~loc[p].condFailed /\ loc[q].condFailed

\* C2: every product group record in the store has a non-empty imageIds, no image
\* id twice in imageIds, and primaryImageId among imageIds.
C2_GroupRecordInvariant ==
    \A g \in AllGroupIds :
        grp[g].present =>
            /\ Len(grp[g].imageIds) > 0
            /\ NoDuplicates(grp[g].imageIds)
            /\ grp[g].primary \in Range(grp[g].imageIds)

\* C3: once an embedding record's productGroupId is a group g, it is g in every
\* later state: no step clears it or sets another group.
C3_GroupIdWriteOnce ==
    [][\A i \in Images : emb[i].gid # NoGroup => emb'[i].gid = emb[i].gid]_vars

\* C4: under concurrent process_image_for_grouping invocations for distinct new
\* images, no image id is in the imageIds of more than one product group.
C4_OneGroupPerImage ==
    \A i \in Images : Cardinality(GroupsHolding(i)) <= 1

\* process_image_for_grouping by p has returned normally.
ProcessReturned(p) == pc[p] = "done" /\ loc[p].op = "process" /\ loc[p].err = ""

HasBest(p) == loc[p].matches # <<>>

Best(p) == loc[p].matches[1]

\* C5: when the best match is SAME_PRODUCT and already in group g, and the store
\* calls succeed, then on return the new image's productGroupId is g, g's imageIds
\* holds the new image exactly once, and no group record was created.
C5_JoinsExistingGroup ==
    \A p \in Procs :
        (/\ ProcessReturned(p) /\ HasBest(p) /\ ~loc[p].storeFailed
         /\ Best(p).matchType = "SAME_PRODUCT" /\ Best(p).groupId # NoGroup) =>
            /\ emb[loc[p].img].gid = Best(p).groupId
            /\ Count(loc[p].img, grp[Best(p).groupId].imageIds) = 1
            /\ GroupsCreatedSince(p) = {}

C5_Witness ==
    \E p \in Procs :
        /\ ProcessReturned(p) /\ HasBest(p) /\ ~loc[p].storeFailed
        /\ Best(p).matchType = "SAME_PRODUCT" /\ Best(p).groupId # NoGroup
        /\ loc[p].assigned.groupId = Best(p).groupId

\* C6: when the best match is SAME_PRODUCT or LIKELY_SAME and has no group, exactly
\* one group record is created, with imageIds [new image, matched image] and the new
\* image as primaryImageId, and both embedding records carry its id on return.
C6_SeedsTwoMemberGroup ==
    \A p \in Procs :
        (/\ ProcessReturned(p) /\ HasBest(p)
         /\ Best(p).matchType \in {"SAME_PRODUCT", "LIKELY_SAME"}
         /\ Best(p).groupId = NoGroup) =>
            /\ Cardinality(GroupsCreatedSince(p)) = 1
            /\ \A g \in GroupsCreatedSince(p) :
                  /\ grp[g].imageIds = <<loc[p].img, Best(p).imageId>>
                  /\ grp[g].primary = loc[p].img
                  /\ emb[loc[p].img].gid = g
                  /\ emb[Best(p).imageId].gid = g
                  /\ loc[p].assigned.groupId = g
            /\ loc[p].isNew

C6_Witness ==
    \E p \in Procs :
        /\ ProcessReturned(p) /\ HasBest(p)
        /\ Best(p).matchType = "LIKELY_SAME"
        /\ Best(p).groupId = NoGroup
        /\ loc[p].isNew
        /\ grp[loc[p].assigned.groupId].imageIds = <<loc[p].img, Best(p).imageId>>

\* C7: when the best match is LIKELY_SAME and already in a group, no group record
\* is created, the new image stays ungrouped and the match keeps its group.
C7_LikelySameNeverSplits ==
    \A p \in Procs :
        (/\ ProcessReturned(p) /\ HasBest(p)
         /\ Best(p).matchType = "LIKELY_SAME" /\ Best(p).groupId # NoGroup) =>
            /\ GroupsCreatedSince(p) = {}
            /\ emb[loc[p].img].gid = NoGroup
            /\ emb[Best(p).imageId].gid = Best(p).groupId

\* C8: with no match, or a best match POSSIBLY_SAME (a DIFFERENT one is no match),
\* the call writes only the new image's own embedding record: no group record, no
\* productGroupId and no imageIds changes, and it reports no group, isNewGroup false.
C8_UngroupedWritesOnlyOwnRecord ==
    \A p \in Procs :
        (/\ ProcessReturned(p)
         /\ (~HasBest(p) \/ Best(p).matchType \in {"POSSIBLY_SAME", "DIFFERENT"})) =>
            /\ grp = loc[p].grp0
            /\ \A j \in Images : j # loc[p].img => emb[j] = loc[p].emb0[j]
            /\ emb[loc[p].img].gid = loc[p].emb0[loc[p].img].gid
            /\ emb[loc[p].img].vec = loc[p].vec
            /\ loc[p].assigned = NoResult
            /\ ~loc[p].isNew

\* A POSSIBLY_SAME best match beside an existing group.
C8_Witness ==
    \E p \in Procs :
        /\ ProcessReturned(p) /\ HasBest(p)
        /\ Best(p).matchType = "POSSIBLY_SAME"
        /\ \E g \in AllGroupIds : grp[g].present

\* C9: the two-member group the orchestrator creates has the best match's
\* similarity score as its confidence.
C9_ConfidenceIsMatchScore ==
    \A p \in Procs :
        (ProcessReturned(p) /\ loc[p].isNew) =>
            /\ ScoreEq(loc[p].assigned.confidence, Best(p).similarity)
            /\ ScoreEq(grp[loc[p].assigned.groupId].confidence, Best(p).similarity)

\* batch_process_with_multi_signal by p has returned its summary.
BatchReturned(p) == pc[p] = "done" /\ loc[p].op = "batch" /\ loc[p].err = ""

\* The ids among ids that arrived (were embedded) in p's batch.
NewIn(p, ids) == Range(ids) \cap Range(loc[p].newRaw)

FailedIds(p) == {loc[p].images[k].id : k \in {j \in 1..Len(loc[p].images) : loc[p].images[j].big}}

\* C10: per cluster of the batch, a group is created iff the cluster has more than
\* one image and a new one, with the cluster's ids as imageIds; a singleton new
\* image goes to ungrouped; a cluster of pre-existing images creates nothing and
\* adds nothing to ungrouped.  Every embedded new image is in exactly one of: one
\* created group, or ungrouped.
C10_GroupPerMixedCluster ==
    \A p \in Procs :
        BatchReturned(p) =>
            LET l == loc[p]
                made == GroupsCreatedSince(p)
                MadeFor(ids) == {g \in made : grp[g].imageIds = ids}
                Touching(ids) == {g \in made : Range(grp[g].imageIds) \cap Range(ids) # {}}
            IN /\ made = {l.created[k].groupId : k \in 1..Len(l.created)}
               /\ Cardinality(made) = Len(l.created)
               /\ \A k \in 1..Len(l.created) :
                     l.created[k].imageIds = grp[l.created[k].groupId].imageIds
               /\ \A c \in 1..Len(l.clusters) :
                     LET ids == l.clusters[c]
                     IN IF Len(ids) > 1 /\ NewIn(p, ids) # {}
                        THEN Cardinality(MadeFor(ids)) = 1 /\ Touching(ids) = MadeFor(ids)
                        ELSE /\ Touching(ids) = {}
                             /\ NewIn(p, ids) # {} => Count(ids[1], l.ungrouped) = 1
                             /\ NewIn(p, ids) = {} =>
                                   Range(ids) \cap Range(l.ungrouped) \subseteq FailedIds(p)
               /\ \A g \in made : \E c \in 1..Len(l.clusters) : grp[g].imageIds = l.clusters[c]
               /\ \A i \in Range(l.newRaw) :
                     Cardinality({g \in made : i \in Range(grp[g].imageIds)})
                        + Count(i, l.ungrouped) = 1

\* A batch of two new images: one grouped with a pre-existing image, one ungrouped.
C10_Witness ==
    \E p \in Procs :
        /\ BatchReturned(p)
        /\ loc[p].created # <<>>
        /\ \E c \in 1..Len(loc[p].clusters) :
              Len(loc[p].clusters[c]) = 1 /\ NewIn(p, loc[p].clusters[c]) # {}

\* The batch's images whose embedding generation failed (batch_result.errors).
EmbeddingFailed(p) == FailedIds(p)

\* The ids in the imageIds of the groups the batch created.
CreatedIds(p) ==
    UNION {Range(loc[p].created[k].imageIds) : k \in 1..Len(loc[p].created)}

\* batch_process_with_multi_signal by p has ended, with its summary or an exception.
BatchEnded(p) == pc[p] = "done" /\ loc[p].op = "batch"

C12_FailedOnlyInErrors ==
    \A p \in Procs :
        BatchReturned(p) =>
            \A i \in EmbeddingFailed(p) :
                i \notin Range(loc[p].ungrouped) /\ i \notin CreatedIds(p)

\* C13: an image whose store_embedding failed in a batch that went on to return is
\* left out of the rest: not passed to clustering, in no group the batch creates.
C13_StoreFailureExcluded ==
    \A p \in Procs :
        BatchReturned(p) =>
            \A i \in loc[p].storeErrs :
                i \notin ClusteredIds(loc[p]) /\ i \notin CreatedIds(p)

\* Worker p's call of fn has returned a result.
FnReturned(p, fn) == pc[p] = "done" /\ loc[p].fn = fn /\ loc[p].err = ""

InputIds(p) == {loc[p].embs[k].imageId : k \in 1..Len(loc[p].embs)}

\* Where image id i occurs in clusters r: the pairs <<cluster, position>>.
Occurrences(i, r) ==
    {ck \in (1..Len(r)) \X (1..NumImages) : ck[2] <= Len(r[ck[1]]) /\ r[ck[1]][ck[2]] = i}

\* C14: cluster_by_similarity returns a partition of its input's image ids: each
\* id occurs in exactly one cluster, once; no cluster is empty; no other id occurs.
C14_ClustersPartitionInput ==
    \A p \in Procs :
        FnReturned(p, "cluster_by_similarity") =>
            LET r == loc[p].result
            IN /\ \A c \in 1..Len(r) : Len(r[c]) > 0 /\ Range(r[c]) \subseteq InputIds(p)
               /\ \A i \in InputIds(p) : Cardinality(Occurrences(i, r)) = 1

\* Three embeddings clustered into a pair and a singleton.
C14_Witness ==
    \E p \in Procs :
        /\ FnReturned(p, "cluster_by_similarity")
        /\ Len(loc[p].embs) = 3
        /\ Len(loc[p].result) = 2

\* The position of image id i in the input list of p's call.
Pos(p, i) == CHOOSE k \in 1..Len(loc[p].embs) : loc[p].embs[k].imageId = i

\* The similarity the call computes for seed s and item x meets the threshold.
SimilarTo(p, s, x) ==
    ScoreGE(ClusterSimilarity(loc[p].embs[Pos(p, s)], loc[p].embs[Pos(p, x)],
                              loc[p].useMulti, loc[p].meta),
            loc[p].threshold)

Seeds(r) == {r[c][1] : c \in 1..Len(r)}

\* C15: each cluster's seed is the earliest input item in no earlier cluster; an
\* item is a non-seed member of a cluster exactly when the cluster's seed is the
\* earliest seed whose similarity to the item is >= threshold.
C15_SeedBasedClusters ==
    \A p \in Procs :
        FnReturned(p, "cluster_by_similarity") =>
            LET r == loc[p].result
                Earlier(c) == UNION {Range(r[d]) : d \in 1..(c - 1)}
                SimilarSeeds(x) == {s \in Seeds(r) \ {x} : SimilarTo(p, s, x)}
            IN /\ \A c \in 1..Len(r) :
                     /\ r[c][1] \notin Earlier(c)
                     /\ \A i \in InputIds(p) \ Earlier(c) : Pos(p, r[c][1]) <= Pos(p, i)
               /\ \A c \in 1..Len(r) : \A x \in InputIds(p) \ {r[c][1]} :
                     x \in Range(r[c]) <=>
                        /\ r[c][1] \in SimilarSeeds(x)
                        /\ \A s \in SimilarSeeds(x) : Pos(p, r[c][1]) <= Pos(p, s)

\* Two items similar to the seed but not to each other, in the seed's cluster.
C15_Witness ==
    \E p \in Procs :
        /\ FnReturned(p, "cluster_by_similarity")
        /\ Len(loc[p].result) = 1
        /\ Len(loc[p].result[1]) = 3
        /\ ~SimilarTo(p, loc[p].result[1][2], loc[p].result[1][3])
        /\ ~SimilarTo(p, loc[p].result[1][3], loc[p].result[1][2])

BandRank(band) ==
    CASE band = "DIFFERENT" -> 0
      [] band = "POSSIBLY_SAME" -> 1
      [] band = "LIKELY_SAME" -> 2
      [] band = "SAME_PRODUCT" -> 3

\* C17: classify_similarity gives SAME_PRODUCT from 0.92, LIKELY_SAME in
\* [0.85, 0.92), POSSIBLY_SAME in [0.75, 0.85), DIFFERENT below 0.75; a higher
\* score never gets a weaker band than a lower one.
C17_ClassifyBands ==
    \A p \in Procs :
        FnReturned(p, "classify_similarity") =>
            LET x == loc[p].score
                band == loc[p].result
            IN /\ band = "SAME_PRODUCT" <=> ScoreGE(x, Score(92, 10000))
               /\ band = "LIKELY_SAME" <=>
                     (ScoreGE(x, Score(85, 10000)) /\ ~ScoreGE(x, Score(92, 10000)))
               /\ band = "POSSIBLY_SAME" <=>
                     (ScoreGE(x, Score(75, 10000)) /\ ~ScoreGE(x, Score(85, 10000)))
               /\ band = "DIFFERENT" <=> ~ScoreGE(x, Score(75, 10000))
               /\ \A y \in ScoreInputs :
                     ScoreGE(y, x) => BandRank(classify_similarity(y)) >= BandRank(band)

\* A score of exactly 0.85, the inclusive lower bound of LIKELY_SAME.
C17_Witness ==
    \E p \in Procs :
        /\ FnReturned(p, "classify_similarity")
        /\ ScoreEq(loc[p].score, Score(85, 10000))
        /\ loc[p].result = "LIKELY_SAME"

\* Worker p's call of cosine_similarity has ended.
CosineEnded(p) == pc[p] = "done" /\ loc[p].fn = "cosine_similarity"

\* C18 as stated: mismatched lengths give the dimension-mismatch error, an empty
\* vector gives the empty-vector error, and a score is returned only for non-empty
\* vectors of equal length.
C18_CosineErrors ==
    \A p \in Procs :
        CosineEnded(p) =>
            LET a == loc[p].a
                b == loc[p].b
            IN /\ Len(a) # Len(b) => loc[p].err = "DimensionMismatch"
               /\ (Len(a) = 0 \/ Len(b) = 0) => loc[p].err = "EmptyVector"
               /\ loc[p].err = "" <=> (Len(a) > 0 /\ Len(b) > 0 /\ Len(a) = Len(b))

\* C18 amended: an empty vector gives the empty-vector error, whatever the other's
\* length; non-empty vectors of different lengths give the dimension-mismatch
\* error; a score is returned exactly for non-empty vectors of equal length.
C18_CosineErrorsEmptyFirst ==
    \A p \in Procs :
        CosineEnded(p) =>
            LET a == loc[p].a
                b == loc[p].b
            IN /\ (Len(a) = 0 \/ Len(b) = 0) => loc[p].err = "EmptyVector"
               /\ (Len(a) > 0 /\ Len(b) > 0 /\ Len(a) # Len(b)) =>
                     loc[p].err = "DimensionMismatch"
               /\ loc[p].err = "" <=> (Len(a) > 0 /\ Len(b) > 0 /\ Len(a) = Len(b))
               /\ loc[p].err = "" => loc[p].result = cosine_similarity(a, b)

\* An empty vector against a non-empty one: lengths differ, the error is the
\* empty-vector one.
C18_Witness ==
    \E p \in Procs :
        /\ CosineEnded(p)
        /\ Len(loc[p].a) = 0 /\ Len(loc[p].b) > 0
        /\ loc[p].err = "EmptyVector"

\* Worker p's call of sanitize_tenant has ended.
SanitizeEnded(p) == pc[p] = "done" /\ loc[p].fn = "sanitize_tenant"

\* The positions of t holding an allowed character.
AllowedAt(t) == {j \in 1..Len(t) : t[j] \in AllowedChars}

\* The position in t of its k-th allowed character.
KthAllowed(t, k) ==
    CHOOSE j \in AllowedAt(t) : Cardinality({i \in AllowedAt(t) : i <= j}) = k

\* C19: sanitize_tenant returns the input's allowed characters, all of them, in
\* their order ("ab/c#1" gives "abc1"); when none remains it raises the
\* invalid-tenant error and returns nothing; its result is a fixed point.
C19_SanitizeTenant ==
    \A p \in Procs :
        SanitizeEnded(p) =>
            LET t == loc[p].tenant
                r == loc[p].result
            IN /\ loc[p].err = "InvalidTenant" <=> AllowedAt(t) = {}
               /\ loc[p].err \in {"", "InvalidTenant"}
               /\ loc[p].err = "" =>
                     /\ Len(r) = Cardinality(AllowedAt(t))
                     /\ Len(r) > 0
                     /\ \A k \in 1..Len(r) : r[k] = t[KthAllowed(t, k)]
                     /\ ~SanitizeRaises(r)
                     /\ sanitize_tenant(r) = r
               /\ t = <<"a", "b", "/", "c", "#", "1">> => r = <<"a", "b", "c", "1">>

\* "ab/c#1" sanitised to "abc1".
C19_Witness ==
    \E p \in Procs :
        /\ SanitizeEnded(p)
        /\ loc[p].tenant = <<"a", "b", "/", "c", "#", "1">>
        /\ loc[p].result = <<"a", "b", "c", "1">>

\* Worker p's call of a public operation with a tenant has ended.
TenantOpEnded(p) == pc[p] = "done" /\ loc[p].fn \in PublicOps

\* How often '#' occurs in key k.
HashCount(k) == Cardinality({j \in 1..Len(k) : k[j] = "#"})

\* Key k read as TENANT#<tenant>#<entity>: what stands between the first two '#'.
TenantSegment(k) ==
    LET hashes == {j \in 1..Len(k) : k[j] = "#"}
        first == CHOOSE j \in hashes : \A i \in hashes : j <= i
        second == CHOOSE j \in hashes \ {first} : \A i \in hashes \ {first} : j <= i
    IN SubSeq(k, first + 1, second - 1)

\* The partitions of tenant u.
PartitionsOf(u) ==
    {<<"TENANT", "#">> \o u \o <<"#", e>> : e \in {"EMBEDDING", "PRODUCT_GROUP"}}

\* C20: every partition key an operation called with tenant t uses has
\* sanitize_tenant(t) as its tenant segment, with no '#' or other disallowed
\* character in it; a tenant that sanitises to nothing makes the operation fail
\* before any store access; no key lies in a partition of a tenant whose sanitised
\* id differs.
C20_TenantIsolation ==
    \A p \in Procs :
        TenantOpEnded(p) =>
            LET t == loc[p].tenant
                keys == loc[p].keys
            IN /\ AllowedAt(t) = {} => (loc[p].err = "InvalidTenant" /\ keys = {})
               /\ AllowedAt(t) # {} =>
                     /\ loc[p].err = ""
                     /\ keys # {}
                     /\ \A k \in keys :
                           /\ HashCount(k) = 2
                           /\ k[1] = "TENANT"
                           /\ k[Len(k)] \in {"EMBEDDING", "PRODUCT_GROUP"}
                           /\ TenantSegment(k) = sanitize_tenant(t)
                           /\ \A j \in 1..Len(TenantSegment(k)) :
                                 TenantSegment(k)[j] \in AllowedChars
               /\ \A u \in TenantInputs :
                     (AllowedAt(u) # {} /\ sanitize_tenant(u) # sanitize_tenant(t)) =>
                        keys \cap PartitionsOf(sanitize_tenant(u)) = {}

\* process_image_for_grouping called with a tenant holding '#' and '/'.
C20_Witness ==
    \E p \in Procs :
        /\ TenantOpEnded(p)
        /\ loc[p].fn = "process_image_for_grouping"
        /\ loc[p].tenant = <<"a", "#", "/">>
        /\ loc[p].keys = PartitionsOf(<<"a">>)

\* create_product_group called by p with an empty image_ids list has ended.
CreateEmptyEnded(p) == pc[p] = "done" /\ loc[p].op = "create" /\ loc[p].ids = <<>>

\* C22: create_product_group with an empty image id list raises the empty-group
\* error (ValueError 'image_ids array is empty') and leaves the store as it was:
\* no group record written, no embedding record linked, no group id drawn.
C22_EmptyCreateRejected ==
    \A p \in Procs :
        CreateEmptyEnded(p) =>
            /\ loc[p].err = "ValueError"
            /\ grp = loc[p].grp0
            /\ emb = loc[p].emb0
            /\ loc[p].gid = NoGroup
            /\ loc[p].assigned = NoResult

\* The empty call against a store that already holds a group and a linked image.
C22_Witness ==
    \E p \in Procs :
        /\ CreateEmptyEnded(p)
        /\ loc[p].err = "ValueError"
        /\ \E g \in GroupIds : grp[g].present
        /\ \E i \in Images : emb[i].gid # NoGroup

\* C29: add_image_to_group_record called with a group id that names no record
\* does not bring one into existence: after the call the store still holds no
\* record for that group id.
C29_AddCreatesNoGroup ==
    \A p \in Procs :
        (/\ pc[p] = "done"
         /\ loc[p].op = "add"
         /\ ~loc[p].grp0[loc[p].gid].present) => ~grp[loc[p].gid].present

\* process_image_for_grouping by p has ended after a store call of its join branch
\* (link_image_to_group / add_image_to_group_record for a SAME_PRODUCT match that
\* is already in a group) failed.
JoinFailed(p) ==
    /\ pc[p] = "done" /\ loc[p].op = "process"
    /\ HasBest(p) /\ Best(p).matchType = "SAME_PRODUCT" /\ Best(p).groupId # NoGroup
    /\ loc[p].storeFailed

\* C24: a store failure is surfaced, never swallowed: when link_image_to_group or
\* add_image_to_group_record fails while process_image_for_grouping joins the image
\* to an existing group, the call ends with an error, not with a normal result.
C24_JoinFailureSurfaced ==
    \A p \in Procs : JoinFailed(p) => loc[p].err # ""

\* C28: in every reachable state, also one left by a failed store call inside
\* create_product_group or process_image_for_grouping, an embedding record whose
\* productGroupId is g has a group record g whose imageIds contains the image: the
\* only inconsistency ever observed is a group member whose link is missing.
C28_LinkedImpliesMember ==
    \A i \in Images :
        emb[i].gid # NoGroup =>
            /\ grp[emb[i].gid].present
            /\ i \in Range(grp[emb[i].gid].imageIds)

\* C26: group membership is append-only.  In every step, a group record that
\* exists still exists afterwards and its earlier imageIds is a prefix of its later
\* imageIds (nothing removed, nothing reordered); create_product_group never
\* overwrites a record, its put_item goes to a group id that had no record.
C26_MembershipAppendOnly ==
    [][\A g \in AllGroupIds :
          grp[g].present =>
              /\ grp'[g].present
              /\ IsPrefix(grp[g].imageIds, grp'[g].imageIds)
              /\ grp'[g].full = grp[g].full
              /\ grp'[g].primary = grp[g].primary]_vars

\* An add call has appended its image to a group of two beside another group.
C26_Witness ==
    \E p \in Procs :
        /\ pc[p] = "done" /\ loc[p].op = "add" /\ loc[p].err = ""
        /\ ~loc[p].condFailed
        /\ loc[p].grp0[loc[p].gid].full
        /\ Len(loc[p].grp0[loc[p].gid].imageIds) >= 2
        /\ grp[loc[p].gid].imageIds = Append(loc[p].grp0[loc[p].gid].imageIds, loc[p].img)
        /\ \E g \in GroupIds : g # loc[p].gid /\ grp[g].present

\* batch_process_with_multi_signal by p, with the stored embeddings merged in, has
\* clustered and ended.
BatchClustered(p) == BatchEnded(p) /\ loc[p].incl /\ loc[p].clusters # <<>>

\* C30: with previously stored embeddings merged in, new embeddings precede the
\* existing ones in the clustering input, so every cluster holding a newly arrived
\* image is seeded by one: a cluster seeded by a pre-existing image holds only
\* pre-existing images, and each group the batch created has a new image as its
\* primaryImageId, in the summary and in the store.
C30_NewImagesSeedClusters ==
    \A p \in Procs :
        BatchClustered(p) =>
            LET l == loc[p]
            IN /\ \A c \in 1..Len(l.clusters) :
                     /\ NewIn(p, l.clusters[c]) # {} => l.clusters[c][1] \in NewIds(l)
                     /\ l.clusters[c][1] \notin NewIds(l) => NewIn(p, l.clusters[c]) = {}
               /\ \A k \in 1..Len(l.created) :
                     /\ l.created[k].primaryImageId \in NewIds(l)
                     /\ l.created[k].primaryImageId = l.created[k].imageIds[1]
                     /\ grp[l.created[k].groupId].primary \in NewIds(l)

\* A batch created a group of a new image with a pre-existing one, beside a
\* cluster seeded by a pre-existing image.
C30_Witness ==
    \E p \in Procs :
        /\ BatchClustered(p) /\ loc[p].err = ""
        /\ \E k \in 1..Len(loc[p].created) :
              /\ Range(loc[p].created[k].imageIds) \ NewIds(loc[p]) # {}
              /\ loc[p].created[k].primaryImageId \in NewIds(loc[p])
        /\ \E c \in 1..Len(loc[p].clusters) : loc[p].clusters[c][1] \notin NewIds(loc[p])

\* link_image_to_group(i, g) by p has returned.
LinkReturned(p, i, g) ==
    /\ pc[p] = "done" /\ loc[p].op = "link" /\ loc[p].err = ""
    /\ loc[p].img = i /\ loc[p].gid = g

\* The image ids group g lists.
Members(g) == Range(grp[g].imageIds)

\* C23: link_image_to_group is idempotent and safe to retry.  A call sets the
\* image's productGroupId to the group id and changes nothing else (updatedAt
\* aside), whatever the record held before; on a record already linked to the group
\* it leaves the store as it was, so a second call equals one call; and when the
\* other members of group g are linked, linking the remaining member (the link a
\* crashed create_product_group did not reach) leaves every member linked to g.
C23_LinkIdempotentRetry ==
    \A p \in Procs : \A i \in Images : \A g \in AllGroupIds :
        LinkReturned(p, i, g) =>
            LET before == loc[p].emb0
            IN /\ emb[i].present /\ emb[i].gid = g
               /\ emb[i].vec = before[i].vec /\ emb[i].hasId = before[i].hasId
               /\ \A j \in Images \ {i} : emb[j] = before[j]
               /\ grp = loc[p].grp0
               /\ (before[i].present /\ before[i].gid = g) => emb = before
               /\ (/\ grp[g].present /\ i \in Members(g)
                   /\ \A j \in Members(g) \ {i} : before[j].gid = g)
                     => \A j \in Members(g) : emb[j].gid = g

\* create_product_group wrote the group of two and one link, then died or failed;
\* the link call for the other member, not yet linked to the group, completed it.
C23_Witness ==
    \E p \in Procs : \E i \in Images : \E g \in GroupIds :
        /\ LinkReturned(p, i, g)
        /\ grp[g].full /\ Len(grp[g].imageIds) = 2 /\ i \in Members(g)
        /\ loc[p].emb0[i].gid # g
        /\ loc[p].emb0[i].vec # <<>>
        /\ \A j \in Members(g) : emb[j].gid = g

\* The image ids of the tenant's readable embedding records.
Readable == {i \in Images : emb[i].present /\ emb[i].hasId}

\* get_embeddings by p is running or has ended.
Paging(p) == loc[p].op = "get_embeddings"

\* What a get_embeddings call holds at each point: at most limit records, image
\* ids pairwise distinct, a bounded number of queries made, another query ahead
\* only while the limit is not reached and the store reported a further page; at
\* the end exactly min(N, limit) records, the first ones in sort-key order.
PaginationSound ==
    \A p \in Procs :
        Paging(p) =>
            LET l == loc[p]
                ids == [k \in 1..Len(l.embeddings) |-> l.embeddings[k].imageId]
                N == Cardinality(Readable)
            IN /\ Len(l.embeddings) <= l.limit
               /\ NoDuplicates(ids)
               /\ l.queries <= Cardinality({i \in Images : emb[i].present}) + 1
               /\ (pc[p] = "page" /\ l.queries > 0) =>
                      Len(l.embeddings) < l.limit /\ l.lek # NoImage
               /\ pc[p] = "done" =>
                      /\ Len(l.embeddings) = Min(N, l.limit)
                      /\ l.embeddings = SubSeq(get_embeddings(emb), 1, Min(N, l.limit))

\* C21: get_embeddings(tenant, limit) against a partition with N readable records,
\* however the store cuts it into pages, terminates and returns exactly
\* min(N, limit) records with pairwise distinct image ids; it never holds more than
\* limit records and stops paginating as soon as the limit is reached or the store
\* reports no further page.
C21_PaginationExact ==
    /\ []PaginationSound
    /\ \A p \in Procs : (pc[p] = "page") ~> (pc[p] = "done")

\* Three readable records and limit 2: two pages of one record each, the third
\* record never asked for.
C21_Witness ==
    \E p \in Procs :
        /\ Paging(p) /\ pc[p] = "done"
        /\ loc[p].queries >= 2
        /\ Cardinality(Readable) > loc[p].limit
        /\ Len(loc[p].embeddings) = loc[p].limit

\* C25: get_product_groups returns the tenant's groups most-recently-updated
\* first: of any two groups in the result, the one listed earlier has an updatedAt
\* not older than the one listed later, also after add_image_to_group_record has
\* refreshed the updatedAt of a group created earlier than others.
C25_MostRecentlyUpdatedFirst ==
    \A p \in Procs :
        (pc[p] = "done" /\ loc[p].op = "get_product_groups") =>
            \A j, k \in 1..Len(loc[p].result) :
                j < k => loc[p].result[j].updatedAt >= loc[p].result[k].updatedAt

\* process_existing_files by p has returned.
ExistingDone(p) == pc[p] = "done" /\ loc[p].fn = "process_existing_files"

\* The extension bodies of the supported formats, in the cases a name may have.
SupportedBodies(heic) ==
    {<<"jpg">>, <<"JPG">>, <<"jpeg">>, <<"png">>} \cup (IF heic THEN {<<"heic">>} ELSE {})

\* The name ends in a dot and a supported extension, with something before the dot.
HasSupportedExtension(name, heic) ==
    \E k \in 2..(Len(name) - 1) :
        name[k] = "." /\ SubSeq(name, k + 1, Len(name)) \in SupportedBodies(heic)

====
